---- MODULE Spec2Model ----
(***************************************************************************)
(* Model of osmg/analysis/load_case.py.                                    *)
(*                                                                         *)
(* Part 1: the result-combination algebra                                  *)
(*   ensure_minmax_level_exists_or_add, combine_single, combine.           *)
(*                                                                         *)
(* A DataFrame is a record                                                 *)
(*   [kind |-> "table", names, cols, data]                                 *)
(* names : the names of the column levels (columns.names)                  *)
(* cols  : the column keys in positional order, each a tuple of level      *)
(*         values (the MultiIndex)                                         *)
(* data  : the column contents in positional order, data[p] being the      *)
(*         column at position p as a function of the row label             *)
(* A raised exception is a record [kind |-> "error", type, msg].           *)
(* pandas relabels positionally on `frame.columns = index`, so labels and  *)
(* contents are kept as two aligned sequences.                             *)
(***************************************************************************)
EXTENDS Integers, Sequences, FiniteSets, TLC

VARIABLES dfs, op, action, result, calls, enveloped, chained, pc

\* Part 2, the load case registry: the load case objects, the insertion
\* order of the six collections, the contents of the dict objects, the
\* analysis objects, result_setup.directory, the directories on disk, the
\* position of LoadCaseRegistry.run, the outcome of the last call, and the
\* number of entries written by hand.
VARIABLES cases, order, store, analyses, result_setup, fs, run, last, nsets

\* Part 3, one load case and its model: the load case object (or what its
\* construction raised), its fixed_supports, elastic_supports and
\* rigid_diaphragm, the outcome of the last call and the number of calls.
VARIABLES lc, fixed_supports, elastic_supports, rigid_diaphragm, outcome, ncalls

\* Part 4, the load and result computations of a load case: the objects a
\* call works on, what the last call returned or raised, and the number of
\* calls.
VARIABLES objects, ret, nops

combineVars == <<dfs, op, action, result, calls, enveloped, chained, pc>>

registryVars == <<cases, order, store, analyses, result_setup, fs, run, last, nsets>>

supportVars == <<lc, fixed_supports, elastic_supports, rigid_diaphragm, outcome, ncalls>>

callVars == <<objects, ret, nops>>

vars == <<dfs, op, action, result, calls, enveloped, chained, pc,
          cases, order, store, analyses, result_setup, fs, run, last, nsets,
          lc, fixed_supports, elastic_supports, rigid_diaphragm, outcome, ncalls,
          objects, ret, nops>>

\* the variables of a part that a specification of another part leaves alone
RegistryUnused ==
    /\ cases = <<>> /\ order = <<>> /\ store = <<>> /\ analyses = <<>>
    /\ result_setup = "" /\ fs = {} /\ run = <<>> /\ last = <<>> /\ nsets = 0

SupportsUnused ==
    /\ lc = <<>> /\ fixed_supports = <<>> /\ elastic_supports = <<>>
    /\ rigid_diaphragm = <<>> /\ outcome = <<>> /\ ncalls = 0

CombineUnused ==
    /\ dfs = <<>> /\ op = "" /\ action = "" /\ result = <<>> /\ calls = 0
    /\ enveloped = {} /\ chained = FALSE /\ pc = ""

CallsUnused == objects = <<>> /\ ret = <<>> /\ nops = 0

\* Cell values are 0..MaxVal.
MaxVal == 1
\* combine is given lists of 0..MaxTables tables.
MaxTables == 3

\* The row index shared by the tables of one analysis.  No operation of the
\* algebra mixes rows, so one row label carries every case.
Index == {"step0"}

\* The level values in their sort order (pandas keeps MultiIndex levels
\* sorted).
LevelValues == <<"1", "2", "3">>

MinMax == "min/max"

----------------------------------------------------------------------------
(* Generic helpers. *)

Range(s) == {s[i] : i \in DOMAIN s}

Max2(x, y) == IF x >= y THEN x ELSE y

Min2(x, y) == IF x <= y THEN x ELSE y

\* s without its element at position p
RemoveAt(s, p) == [i \in 1..(Len(s) - 1) |-> IF i < p THEN s[i] ELSE s[i + 1]]

\* position of the first occurrence of v in s (v must occur)
IndexOf(s, v) == CHOOSE i \in DOMAIN s : s[i] = v /\ \A j \in 1..(i - 1) : s[j] # v

\* the positions of s that satisfy the membership in P, in increasing order
RECURSIVE PositionsIn(_, _, _)
PositionsIn(s, P, i) ==
    IF i > Len(s) THEN <<>>
    ELSE (IF i \in P THEN <<i>> ELSE <<>>) \o PositionsIn(s, P, i + 1)

Error(type, msg) == [kind |-> "error", type |-> type, msg |-> msg]

Table(names, cols, data) ==
    [kind |-> "table", names |-> names, cols |-> cols, data |-> data]

IsTable(t) == t.kind = "table"

IsError(t) == t.kind = "error"

AlignError == Error("ValueError", "Cannot align DataFrames with different columns")

ActionError == Error("ValueError", "Action must be one of add or envelope.")

CountError == Error("ValueError", "At least two DataFrames are required to combine.")

----------------------------------------------------------------------------
(* pandas primitives used by the algebra. *)

HasMinMax(t) == MinMax \in Range(t.names)

\* MultiIndex.levels[l]: the sorted distinct values of level l
Levels(t, l) ==
    SelectSeq(LevelValues, LAMBDA v : v \in {t.cols[p][l] : p \in DOMAIN t.cols})

\* pd.MultiIndex.from_product([l0, l1, l2]): the keys in product order,
\* the last iterable varying fastest
from_product(l0, l1, l2) ==
    [p \in 1..(Len(l0) * Len(l1) * Len(l2)) |->
        << l0[((p - 1) \div (Len(l1) * Len(l2))) + 1],
           l1[(((p - 1) \div Len(l2)) % Len(l1)) + 1],
           l2[((p - 1) % Len(l2)) + 1] >>]

\* frame.xs(label, level='min/max', axis=1): the columns whose min/max level
\* is label, in their order, with that level dropped
xs(t, label) ==
    LET lp == IndexOf(t.names, MinMax)
        P == {p \in DOMAIN t.cols : t.cols[p][lp] = label}
        pos == PositionsIn(t.cols, P, 1)
    IN  IF P = {} THEN Error("KeyError", label)
        ELSE Table(RemoveAt(t.names, lp),
                   [i \in DOMAIN pos |-> RemoveAt(t.cols[pos[i]], lp)],
                   [i \in DOMAIN pos |-> t.data[pos[i]]])

----------------------------------------------------------------------------
(* ensure_minmax_level_exists_or_add *)

\* the function without its `'min/max' not in columns.names` test
ensure_always_adds(data) ==
    LET n == Len(data.cols)
        new_columns == [p \in 1..(2 * n) |->
                           Append(data.cols[((p - 1) \div 2) + 1],
                                  IF p % 2 = 1 THEN "max" ELSE "min")]
        repeated_data == data.data \o data.data
    IN  Table(Append(data.names, MinMax), new_columns, repeated_data)

\* new_columns lists, for each column, its 'max' key then its 'min' key;
\* repeated_data is the whole frame followed by the whole frame again;
\* the assignment to .columns labels position p with new_columns[p].
ensure_minmax_level_exists_or_add(data) ==
    IF ~HasMinMax(data)
    THEN LET n == Len(data.cols)
             new_columns == [p \in 1..(2 * n) |->
                                Append(data.cols[((p - 1) \div 2) + 1],
                                       IF p % 2 = 1 THEN "max" ELSE "min")]
             repeated_data == data.data \o data.data
         IN  Table(Append(data.names, MinMax), new_columns, repeated_data)
    ELSE data

----------------------------------------------------------------------------
(* combine_single *)

\* the keys compared as sets, whatever their order
ColumnsAligned_unordered(df1, df2) ==
    df1.names = df2.names /\ Range(df1.cols) = Range(df2.cols)

\* the negation of the condition that raises: same level names, and
\* columns.equals (same keys in the same order)
ColumnsAligned(df1, df2) ==
    df1.names = df2.names /\ df1.cols = df2.cols

\* subtraction in place of addition
AddTables_minus(df1, df2) ==
    Table(df1.names, df1.cols,
          [p \in DOMAIN df1.data |->
              [r \in Index |-> df1.data[p][r] - df2.data[p][r]]])

\* df1 + df2 for frames with equal columns
AddTables(df1, df2) ==
    Table(df1.names, df1.cols,
          [p \in DOMAIN df1.data |->
              [r \in Index |-> df1.data[p][r] + df2.data[p][r]]])

\* np.maximum of two frames with equal columns
ElementwiseMax(x1, x2) ==
    [p \in DOMAIN x1.data |-> [r \in Index |-> Max2(x1.data[p][r], x2.data[p][r])]]

\* np.minimum of two frames with equal columns
ElementwiseMin(x1, x2) ==
    [p \in DOMAIN x1.data |-> [r \in Index |-> Min2(x1.data[p][r], x2.data[p][r])]]

\* The envelope of two frames that carry the min/max level and have equal
\* columns: max_df and min_df are concatenated side by side and the result
\* is relabelled with the product of the first two levels and (max, min).
EnvelopeTables(df1, df2) ==
    LET max1 == xs(df1, "max")
        max2 == xs(df2, "max")
        min1 == xs(df1, "min")
        min2 == xs(df2, "min")
    IN  IF IsError(max1) THEN max1
        ELSE IF IsError(min1) THEN min1
        ELSE
        LET max_df == Table(max1.names, max1.cols, ElementwiseMax(max1, max2))
            min_df == Table(min1.names, min1.cols, ElementwiseMin(min1, min2))
            combined == max_df.data \o min_df.data
            names == Append(max_df.names, MinMax)
        IN  IF Len(max_df.names) < 2
            THEN Error("AttributeError", "'Index' object has no attribute 'levels'")
            ELSE IF Len(names) # 3
            THEN Error("ValueError",
                       "Length of names must match number of levels in MultiIndex.")
            ELSE
            LET new_columns == from_product(Levels(max_df, 1), Levels(max_df, 2),
                                            <<"max", "min">>)
            IN  IF Len(new_columns) # Len(combined)
                THEN Error("ValueError", "Length mismatch")
                ELSE Table(names, new_columns, combined)

\* 'add' without the column validation
combine_single_unchecked_add(df1, df2, act) ==
    IF act = "add"
    THEN IF Len(df1.cols) = Len(df2.cols) THEN AddTables(df1, df2) ELSE df1
    ELSE IF act = "envelope"
    THEN LET e1 == ensure_minmax_level_exists_or_add(df1)
             e2 == ensure_minmax_level_exists_or_add(df2)
         IN  IF ~ColumnsAligned(e1, e2) THEN AlignError
             ELSE EnvelopeTables(e1, e2)
    ELSE ActionError

combine_single(df1, df2, act) ==
    IF act = "add"
    THEN IF ~ColumnsAligned(df1, df2) THEN AlignError
         ELSE AddTables(df1, df2)
    ELSE IF act = "envelope"
    THEN LET e1 == ensure_minmax_level_exists_or_add(df1)
             e2 == ensure_minmax_level_exists_or_add(df2)
         IN  IF ~ColumnsAligned(e1, e2) THEN AlignError
             ELSE EnvelopeTables(e1, e2)
    ELSE ActionError

----------------------------------------------------------------------------
(* combine *)

min_df_count == 2

\* The loop `for df in dfs[1:]`: i is the position of the next table, n the
\* number of combine_single calls made so far.  An exception ends the loop.
RECURSIVE combine_loop(_, _, _, _, _)
combine_loop(combined_df, list, i, act, n) ==
    IF i > Len(list) THEN [out |-> combined_df, calls |-> n]
    ELSE LET r == combine_single(combined_df, list[i], act)
         IN  IF IsError(r) THEN [out |-> r, calls |-> n + 1]
             ELSE combine_loop(r, list, i + 1, act, n + 1)

\* the loop starting one table too late (dfs[2:])
combine_skips_second(list, act) ==
    IF Len(list) < min_df_count THEN [out |-> CountError, calls |-> 0]
    ELSE combine_loop(list[1], list, 3, act, 0)

\* the length test off by one (len(dfs) < 1)
combine_accepts_one(list, act) ==
    IF Len(list) < 1 THEN [out |-> CountError, calls |-> 0]
    ELSE combine_loop(list[1], list, 2, act, 0)

\* out is what combine returns or raises, calls the number of combine_single
\* calls it made
combine(list, act) ==
    IF Len(list) < min_df_count THEN [out |-> CountError, calls |-> 0]
    ELSE combine_loop(list[1], list, 2, act, 0)

----------------------------------------------------------------------------
(* The inputs. *)

Layout(names, cols) == [names |-> names, cols |-> cols]

\* one column, two levels
LayoutA == Layout(<<"element", "dof">>, << <<"1", "1">> >>)
\* two columns
LayoutB == Layout(<<"element", "dof">>, << <<"1", "1">>, <<"1", "2">> >>)
\* three columns
LayoutC == Layout(<<"element", "dof">>,
                  << <<"1", "1">>, <<"1", "2">>, <<"1", "3">> >>)
\* the columns of LayoutB in the other order (not sorted)
LayoutD == Layout(<<"element", "dof">>, << <<"1", "2">>, <<"1", "1">> >>)
\* the keys of LayoutA under other level names
LayoutE == Layout(<<"element", "station">>, << <<"1", "1">> >>)
\* three levels, as an element recorder's data has
LayoutF == Layout(<<"element", "station", "dof">>, << <<"1", "1", "1">> >>)
\* one level
LayoutG == Layout(<<"element">>, << <<"1">> >>)
\* a table that already carries the min/max level
LayoutH == Layout(<<"element", "dof", MinMax>>,
                  << <<"1", "1", "max">>, <<"1", "1", "min">> >>)

Layouts == {LayoutA, LayoutB, LayoutC, LayoutD, LayoutE, LayoutF, LayoutG, LayoutH}

\* the layouts used for lists of three tables or more
FoldLayouts == {l \in Layouts : Len(l.cols) <= 2}

Cells == [Index -> 0..MaxVal]

TablesOf(l) == {Table(l.names, l.cols, d) : d \in [1..Len(l.cols) -> Cells]}

Tables == UNION {TablesOf(l) : l \in Layouts}

\* the argument lists: any tables for up to two, tables of one layout beyond
InputLists ==
    UNION {[1..n -> Tables] : n \in 0..2}
    \cup UNION {[1..n -> TablesOf(l)] : l \in FoldLayouts, n \in 3..MaxTables}

Actions == {"add", "envelope", "max"}

NoResult == [kind |-> "none"]

----------------------------------------------------------------------------
(* The state machine: an argument list is drawn, one function is applied  *)
(* to it, and a table returned by combine_single may be combined again    *)
(* with one of its operands.                                              *)

InitCombine ==
    /\ dfs \in InputLists
    /\ op = "none"
    /\ action = "none"
    /\ result = NoResult
    /\ calls = 0
    /\ enveloped = {}
    /\ chained = FALSE
    /\ pc = "ready"
    /\ RegistryUnused
    /\ SupportsUnused
    /\ CallsUnused

CallEnsure ==
    /\ pc = "ready"
    /\ Len(dfs) = 1
    /\ result' = ensure_minmax_level_exists_or_add(dfs[1])
    /\ op' = "ensure"
    /\ pc' = "done"
    /\ UNCHANGED <<dfs, action, calls, enveloped, chained>>
    /\ UNCHANGED <<registryVars, supportVars, callVars>>

CallCombineSingle(act) ==
    /\ pc = "ready"
    /\ Len(dfs) = 2
    /\ result' = combine_single(dfs[1], dfs[2], act)
    /\ op' = "combine_single"
    /\ action' = act
    /\ pc' = "done"
    /\ UNCHANGED <<dfs, calls, enveloped, chained>>
    /\ UNCHANGED <<registryVars, supportVars, callVars>>

CallCombine(act) ==
    /\ pc = "ready"
    /\ LET r == combine(dfs, act)
       IN  /\ result' = r.out
           /\ calls' = r.calls
    /\ op' = "combine"
    /\ action' = act
    /\ pc' = "done"
    /\ UNCHANGED <<dfs, enveloped, chained>>
    /\ UNCHANGED <<registryVars, supportVars, callVars>>

\* the table combine_single returned becomes an operand, next to operand i
Reuse(i, first) ==
    /\ pc = "done"
    /\ op = "combine_single"
    /\ ~chained
    /\ IsTable(result)
    /\ dfs' = IF first THEN <<result, dfs[i]>> ELSE <<dfs[i], result>>
    /\ enveloped' = IF action = "envelope"
                    THEN (IF first THEN {1} ELSE {2})
                    ELSE {}
    /\ chained' = TRUE
    /\ op' = "none"
    /\ action' = "none"
    /\ result' = NoResult
    /\ calls' = 0
    /\ pc' = "ready"
    /\ UNCHANGED <<registryVars, supportVars, callVars>>

NextCombine ==
    \/ CallEnsure
    \/ \E act \in Actions : CallCombineSingle(act)
    \/ \E act \in Actions : CallCombine(act)
    \/ \E i \in 1..2, first \in BOOLEAN : Reuse(i, first)

SpecCombine == InitCombine /\ [][NextCombine]_vars

----------------------------------------------------------------------------
(* Vocabulary of the properties. *)

Arg1 == dfs[1]

Arg2 == dfs[2]

Done(o) == pc = "done" /\ op = o

\* identical column hierarchies: level names, keys and their order
SameColumns(a, b) == a.names = b.names /\ a.cols = b.cols

HasCell(t, key) == key \in Range(t.cols)

\* the positions of t's columns labelled key
PositionsOf(t, key) == {p \in DOMAIN t.cols : t.cols[p] = key}

\* the column of t labelled key
Cell(t, key) == t.data[IndexOf(t.cols, key)]

\* the keys of t below the min/max level
PlainKeys(t) ==
    IF HasMinMax(t)
    THEN {RemoveAt(t.cols[p], IndexOf(t.names, MinMax)) : p \in DOMAIN t.cols}
    ELSE Range(t.cols)

\* the 'max' (or 'min') values of t under key k: a table without the
\* min/max level stands for both
Side(t, k, mm) == IF HasMinMax(t) THEN Cell(t, Append(k, mm)) ELSE Cell(t, k)

\* the column hierarchy t has once it carries the min/max level
MinMaxNames(t) == IF HasMinMax(t) THEN t.names ELSE Append(t.names, MinMax)

MinMaxCols(t) ==
    IF HasMinMax(t) THEN t.cols
    ELSE [p \in 1..(2 * Len(t.cols)) |->
             Append(t.cols[((p - 1) \div 2) + 1], IF p % 2 = 1 THEN "max" ELSE "min")]

Perms(n) == {f \in [1..n -> 1..n] : \A i, j \in 1..n : f[i] = f[j] => i = j}

Permuted(list, f) == [i \in 1..Len(list) |-> list[f[i]]]

AllSameColumns(list) == \A i, j \in DOMAIN list : SameColumns(list[i], list[j])

----------------------------------------------------------------------------
(* Properties. *)

\* C1: combine_single(a, b, 'envelope') on tables with identical column
\* hierarchies returns a table that holds, under every original key k, a
\* 'max' cell equal to the element-wise maximum of the operands' 'max'
\* values for k and a 'min' cell equal to the element-wise minimum of their
\* 'min' values for k.
C1_EnvelopeIsCellwise ==
    (Done("combine_single") /\ action = "envelope" /\ SameColumns(Arg1, Arg2))
    => /\ IsTable(result)
       /\ \A k \in PlainKeys(Arg1) :
            /\ HasCell(result, Append(k, "max"))
            /\ HasCell(result, Append(k, "min"))
            /\ \A r \in Index :
                 /\ Cell(result, Append(k, "max"))[r]
                      = Max2(Side(Arg1, k, "max")[r], Side(Arg2, k, "max")[r])
                 /\ Cell(result, Append(k, "min"))[r]
                      = Min2(Side(Arg1, k, "min")[r], Side(Arg2, k, "min")[r])

\* C2: ensure_minmax_level_exists_or_add on a table without the min/max
\* level returns a table in which every original key k appears exactly
\* twice, as (k, 'max') and (k, 'min'), both columns carrying the values of
\* the original column k.
C2_EnsureDuplicatesEachColumn ==
    (Done("ensure") /\ ~HasMinMax(Arg1))
    => /\ IsTable(result)
       /\ Len(result.cols) = 2 * Len(Arg1.cols)
       /\ \A p \in DOMAIN Arg1.cols : \A mm \in {"max", "min"} :
            /\ Cardinality(PositionsOf(result, Append(Arg1.cols[p], mm))) = 1
            /\ Cell(result, Append(Arg1.cols[p], mm)) = Arg1.data[p]

\* C3: for a table x without the min/max level, combine_single(x, x,
\* 'envelope') returns a table whose 'max' and 'min' values under every key
\* k are x's values under k.
C3_EnvelopeOfSelf ==
    (Done("combine_single") /\ action = "envelope" /\ Arg1 = Arg2
        /\ ~HasMinMax(Arg1))
    => /\ IsTable(result)
       /\ \A k \in Range(Arg1.cols) : \A mm \in {"max", "min"} :
            /\ HasCell(result, Append(k, mm))
            /\ Cell(result, Append(k, mm)) = Cell(Arg1, k)

\* C4: combine(list, 'envelope') on two or more tables with identical
\* column hierarchies succeeds and returns the same table for every
\* permutation of the list.
C4_EnvelopeFoldOrderIndependent ==
    (Done("combine") /\ action = "envelope" /\ Len(dfs) >= 2
        /\ AllSameColumns(dfs))
    => /\ IsTable(result)
       /\ \A f \in Perms(Len(dfs)) :
            combine(Permuted(dfs, f), "envelope").out = result

\* C5: combine_single(a, b, 'add') on tables with identical column level
\* names and identical keys in identical order returns a table with the
\* same columns whose every cell is a's cell plus b's cell.
C5_AddIsCellwiseSum ==
    (Done("combine_single") /\ action = "add" /\ SameColumns(Arg1, Arg2))
    => /\ IsTable(result)
       /\ SameColumns(result, Arg1)
       /\ Len(result.data) = Len(Arg1.data)
       /\ \A p \in DOMAIN Arg1.data : \A r \in Index :
            result.data[p][r] = Arg1.data[p][r] + Arg2.data[p][r]

\* a sum of two different two-column tables has been returned
C5_Witness ==
    /\ Done("combine_single") /\ action = "add"
    /\ SameColumns(Arg1, Arg2)
    /\ Len(Arg1.cols) >= 2
    /\ Arg1.data # Arg2.data
    /\ \E p \in DOMAIN Arg2.data : \E r \in Index : Arg2.data[p][r] > 0
    /\ IsTable(result)

\* C6: combine(list, 'add') on two or more tables with identical column
\* hierarchies returns the same table for every permutation of the list.
C6_AddFoldOrderIndependent ==
    (Done("combine") /\ action = "add" /\ Len(dfs) >= 2 /\ AllSameColumns(dfs))
    => /\ IsTable(result)
       /\ \A f \in Perms(Len(dfs)) :
            combine(Permuted(dfs, f), "add").out = result

\* three tables, not all equal, have been summed
C6_Witness ==
    /\ Done("combine") /\ action = "add"
    /\ Len(dfs) >= 3
    /\ AllSameColumns(dfs)
    /\ dfs[1] # dfs[2] /\ dfs[2] # dfs[3] /\ dfs[1] # dfs[3]
    /\ IsTable(result)

\* C7: ensure_minmax_level_exists_or_add is idempotent: applied to its own
\* result it returns a table with the same column keys, order and values.
C7_EnsureIdempotent ==
    Done("ensure")
    => /\ IsTable(result)
       /\ ensure_minmax_level_exists_or_add(result) = result

\* the min/max level has been added to a table that lacked it
C7_Witness ==
    /\ Done("ensure")
    /\ ~HasMinMax(Arg1)
    /\ IsTable(result) /\ HasMinMax(result)
    /\ Len(Arg1.cols) >= 2

\* C8: combine_single raises the column-alignment error whenever the column
\* hierarchies of the operands differ in level names or in keys or their
\* order: compared as given for 'add', compared once both carry the min/max
\* level for 'envelope'.
C8_MismatchRaises ==
    /\ (Done("combine_single") /\ action = "add" /\ ~SameColumns(Arg1, Arg2))
       => result = AlignError
    /\ (Done("combine_single") /\ action = "envelope"
          /\ ~(/\ MinMaxNames(Arg1) = MinMaxNames(Arg2)
               /\ MinMaxCols(Arg1) = MinMaxCols(Arg2)))
       => result = AlignError

\* operands with the same level names and the same keys in another order
\* have been refused
C8_Witness ==
    /\ Done("combine_single") /\ action \in {"add", "envelope"}
    /\ Arg1.names = Arg2.names
    /\ Arg1.cols # Arg2.cols
    /\ Range(Arg1.cols) = Range(Arg2.cols)
    /\ result = AlignError

\* C9: combine raises the argument-count error for a list of fewer than two
\* tables, whatever the action, and calls combine_single not once.
C9_ShortListRaises ==
    (Done("combine") /\ Len(dfs) < 2)
    => /\ result = CountError
       /\ calls = 0

\* a list of one table has been refused
C9_Witness ==
    /\ Done("combine")
    /\ Len(dfs) = 1
    /\ result = CountError

\* C10: with e the result of an 'envelope' combination, 'add' of e and a
\* table p without the min/max level raises the alignment error in either
\* operand order, and 'add' involving e returns a table only if the other
\* operand carries the min/max level with e's column keys.
C10_MinMaxSticky ==
    (Done("combine_single") /\ action = "add" /\ enveloped # {})
    => \A i \in enveloped :
         LET e == dfs[i]
             p == dfs[3 - i]
         IN  /\ ~HasMinMax(p) => result = AlignError
             /\ IsTable(result) => (HasMinMax(p) /\ p.cols = e.cols)

\* an enveloped table and a plain operand have been refused by 'add'
C10_Witness ==
    /\ Done("combine_single") /\ action = "add"
    /\ \E i \in enveloped : ~HasMinMax(dfs[3 - i]) /\ HasMinMax(dfs[i])
    /\ result = AlignError

----------------------------------------------------------------------------
(***************************************************************************)
(* Part 2: the load case objects and the LoadCaseRegistry.                 *)
(*                                                                         *)
(* A load case held by the registry is identified by its collection and    *)
(* its name.  A dict or analysis object is identified by the load case     *)
(* whose construction made it; a load case holds references to such        *)
(* objects, so that two load cases can hold the same object.               *)
(***************************************************************************)

\* The registry holds at most MaxCases load cases.
MaxCases == 2
\* At most MaxSets entries are written into the maps by hand.
MaxSets == 1

\* the collections in the order in which get_load_cases merges them
Collections ==
    <<"static", "modal", "seismic_elf", "seismic_rs", "seismic_transient", "other">>

CollectionSet == Range(Collections)

Names == {"a", "b"}

CaseIds == CollectionSet \X Names

Nodes == {"n1"}

Absent == "absent"

\* the maps of a load case that are keyed by node
MapFields == {"fixed_supports", "elastic_supports", "rigid_diaphragm", "mass_registry"}

Refs == CaseIds \X MapFields

NoRef == <<>>

NoLink == <<>>

NoPath == <<>>

Unset == "None"

\* the _direction of a load case that was not configured (None)
NoDirection == -1

\* the Model the registry was constructed with
TheModel == "model"

NoCase == [kind |-> "none", cls |-> "none"]

EmptyMap == [n \in Nodes |-> Absent]

\* the classes that inherit HasMass
HasMass(cls) == cls \in {"modal", "seismic_transient", "other"}

\* the __post_init__ that the generated __init__ of the class calls: the
\* first one in the method resolution order
PostInitOf(cls) ==
    CASE cls = "static" -> "StaticLoadCase"
      [] cls = "modal" -> "ModalLoadCase"
      [] cls \in {"seismic_elf", "seismic_rs", "seismic_transient"} -> "SeismicLoadCase"
      [] OTHER -> "LoadCase"

\* the _case_type that __post_init__ sets
CaseTypeOf(cls) ==
    CASE PostInitOf(cls) = "StaticLoadCase" -> "Static"
      [] PostInitOf(cls) = "ModalLoadCase" -> "Modal"
      [] PostInitOf(cls) = "SeismicLoadCase" -> "Seismic"
      [] OTHER -> "Undefined"

\* the load case object with fresh dict and analysis objects
FreshCase(cls, model, id) ==
    [kind |-> "case", cls |-> cls, model |-> model, case_type |-> CaseTypeOf(cls),
     fixed_supports |-> <<id, "fixed_supports">>,
     elastic_supports |-> <<id, "elastic_supports">>,
     rigid_diaphragm |-> <<id, "rigid_diaphragm">>,
     mass_registry |-> IF HasMass(cls) THEN <<id, "mass_registry">> ELSE NoRef,
     analysis |-> id,
     linked |-> NoLink, direction |-> NoDirection, g_constant |-> Unset]

\* every instance holding the dict objects of one instance (a shared default)
NewCase_shared_default(cls, model, id) ==
    IF PostInitOf(cls) = "LoadCase"
    THEN Error("RecursionError", "maximum recursion depth exceeded")
    ELSE [FreshCase(cls, model, id) EXCEPT
             !.fixed_supports = << <<"static", "a">>, "fixed_supports">>,
             !.elastic_supports = << <<"static", "a">>, "elastic_supports">>,
             !.rigid_diaphragm = << <<"static", "a">>, "rigid_diaphragm">>,
             !.mass_registry = IF HasMass(cls)
                               THEN << <<"static", "a">>, "mass_registry">>
                               ELSE NoRef]

\* cls(model=model): the generated __init__ assigns the fields and calls
\* __post_init__.  The __post_init__ of StaticLoadCase, ModalLoadCase and
\* SeismicLoadCase only sets _case_type: HasModel.__post_init__, which
\* tests the model, is not called.  LoadCase.__post_init__ (the one
\* OtherLoadCase inherits) calls HasModel.__init__, which calls __post_init__
\* again, without end.
NewCase(cls, model, id) ==
    IF PostInitOf(cls) = "LoadCase"
    THEN Error("RecursionError", "maximum recursion depth exceeded")
    ELSE FreshCase(cls, model, id)

Exists(id) == cases[id].cls # "none"

NumCases == Cardinality({id \in CaseIds : Exists(id)})

\* the content of the map f of load case id, as the load case sees it
Content(cs, st, id, f) ==
    IF cs[id].cls = "none" THEN EmptyMap
    ELSE IF cs[id][f] = NoRef THEN EmptyMap
    ELSE st[cs[id][f]]

InitRegistry ==
    /\ cases = [id \in CaseIds |-> NoCase]
    /\ order = [c \in CollectionSet |-> <<>>]
    /\ store = [r \in Refs |-> EmptyMap]
    /\ analyses = [id \in CaseIds |-> [result_directory |-> NoPath, ran |-> FALSE]]
    /\ result_setup \in {NoPath, <<"out">>}
    /\ fs = {}
    /\ run = [pc |-> "idle", base |-> NoPath, queue |-> <<>>, i |-> 0,
              started |-> <<>>, returned |-> <<>>, raised |-> FALSE]
    /\ last = [op |-> "none"]
    /\ nsets = 0
    /\ CombineUnused
    /\ SupportsUnused
    /\ CallsUnused

\* registry.<c>[n]: the defaultdict returns the stored load case, or calls
\* its factory and stores what it returns; if the factory raises nothing is
\* stored.
Reference(c, n) ==
    /\ run.pc = "idle"
    /\ IF Exists(<<c, n>>)
       THEN /\ last' = [op |-> "reference", coll |-> c, name |-> n,
                        ret |-> [kind |-> "case", id |-> <<c, n>>]]
            /\ UNCHANGED <<cases, order>>
       ELSE LET r == NewCase(c, TheModel, <<c, n>>)
            IN  IF IsError(r)
                THEN /\ last' = [op |-> "reference", coll |-> c, name |-> n, ret |-> r]
                     /\ UNCHANGED <<cases, order>>
                ELSE /\ NumCases < MaxCases
                     /\ cases' = [cases EXCEPT ![<<c, n>>] = r]
                     /\ order' = [order EXCEPT ![c] = Append(@, n)]
                     /\ last' = [op |-> "reference", coll |-> c, name |-> n,
                                 ret |-> [kind |-> "case", id |-> <<c, n>>]]
    /\ UNCHANGED <<store, analyses, result_setup, fs, run, nsets>>
    /\ UNCHANGED <<combineVars, supportVars, callVars>>

ValidDirections == {0, 1, 2}

\* SeismicRSLoadCase.configure with _link_modal_load_case: the load case
\* takes over the analysis, the support maps, the rigid diaphragms and the
\* mass registry of the modal load case, by reference.
Configure(rs, m, direction) ==
    /\ run.pc = "idle"
    /\ Exists(rs) /\ cases[rs].cls = "seismic_rs"
    /\ Exists(m) /\ cases[m].cls = "modal"
    /\ IF direction \notin ValidDirections
       THEN /\ last' = [op |-> "configure",
                        ret |-> Error("AssertionError", "Invalid direction")]
            /\ UNCHANGED cases
       ELSE /\ cases' = [cases EXCEPT ![rs] =
                  [@ EXCEPT !.direction = direction,
                            !.g_constant = "g",
                            !.analysis = cases[m].analysis,
                            !.fixed_supports = cases[m].fixed_supports,
                            !.elastic_supports = cases[m].elastic_supports,
                            !.rigid_diaphragm = cases[m].rigid_diaphragm,
                            !.mass_registry = cases[m].mass_registry,
                            !.linked = m]]
            /\ last' = [op |-> "configure", ret |-> [kind |-> "none"]]
    /\ UNCHANGED <<order, store, analyses, result_setup, fs, run, nsets>>
    /\ UNCHANGED <<combineVars, supportVars, callVars>>

\* load_case.<f>[n] = v, as add_supports_at_level and self_mass write an entry
SetEntry(id, f, n, v) ==
    /\ run.pc = "idle"
    /\ Exists(id)
    /\ nsets < MaxSets
    /\ IF cases[id][f] = NoRef
       THEN /\ last' = [op |-> "set", ret |-> Error("AttributeError", f)]
            /\ UNCHANGED <<store, nsets>>
       ELSE /\ store' = [store EXCEPT ![cases[id][f]] = [@ EXCEPT ![n] = v]]
            /\ nsets' = nsets + 1
            /\ last' = [op |-> "set", ret |-> [kind |-> "none"]]
    /\ UNCHANGED <<cases, order, analyses, result_setup, fs, run>>
    /\ UNCHANGED <<combineVars, supportVars, callVars>>

\* the items (name, load case) of collection c in insertion order
ItemsOf(c) == [k \in 1..Len(order[c]) |-> <<order[c][k], <<c, order[c][k]>>>>]

\* dict | dict: an item of the right operand replaces the value of the item
\* of the same key, in its place, or is appended
RECURSIVE DictMerge(_, _)
DictMerge(left, right) ==
    IF right = <<>> THEN left
    ELSE LET item == Head(right)
             at == {k \in DOMAIN left : left[k][1] = item[1]}
         IN  DictMerge(IF at = {} THEN Append(left, item)
                       ELSE [k \in DOMAIN left |-> IF k \in at THEN item ELSE left[k]],
                       Tail(right))

\* self.static | self.modal | self.seismic_elf | self.seismic_rs
\*   | self.seismic_transient | self.other, evaluated from the left
RECURSIVE MergedUpTo(_)
MergedUpTo(k) ==
    IF k = 0 THEN <<>>
    ELSE DictMerge(MergedUpTo(k - 1), ItemsOf(Collections[k]))

get_load_cases == MergedUpTo(Len(Collections))

\* base_dir / f'{case_type}_{load_case_name}'
CaseDir(base, id, name) == Append(base, <<cases[id].case_type, name>>)

\* the load case of the current iteration, and its name in cases_dict
CurrentName == run.queue[run.i][1]

CurrentCase == run.queue[run.i][2]

\* LoadCaseRegistry.run up to the loop: the base directory is resolved and
\* created, and the load cases are collected
RunStart ==
    /\ run.pc = "idle"
    /\ LET base_dir == IF result_setup # NoPath THEN result_setup ELSE <<"tmp">>
           cases_dict == get_load_cases
       IN  /\ fs' = fs \cup {base_dir}
           /\ result_setup' = base_dir
           /\ run' = [run EXCEPT !.pc = IF cases_dict = <<>> THEN "done" ELSE "loop",
                                 !.base = base_dir,
                                 !.queue = cases_dict,
                                 !.i = 1]
    /\ last' = [op |-> "run"]
    /\ UNCHANGED <<cases, order, store, analyses, nsets>>
    /\ UNCHANGED <<combineVars, supportVars, callVars>>

\* an iteration that creates the subdirectory and leaves the settings alone
StartCase_unassigned ==
    /\ run.pc = "loop"
    /\ fs' = fs \cup {CaseDir(run.base, CurrentCase, CurrentName)}
    /\ run' = [run EXCEPT !.pc = "running", !.started = Append(@, CurrentCase)]
    /\ UNCHANGED <<cases, order, store, analyses, result_setup, last, nsets>>
    /\ UNCHANGED <<combineVars, supportVars, callVars>>

\* an iteration of the loop up to the call of load_case.run(): the
\* subdirectory is created and assigned to the settings of the analysis
\* object the load case holds
StartCase ==
    /\ run.pc = "loop"
    /\ LET load_case == CurrentCase
           case_dir == CaseDir(run.base, load_case, CurrentName)
       IN  /\ fs' = fs \cup {case_dir}
           /\ analyses' = [analyses EXCEPT
                  ![cases[load_case].analysis].result_directory = case_dir]
           /\ run' = [run EXCEPT !.pc = "running",
                                 !.started = Append(@, load_case)]
    /\ UNCHANGED <<cases, order, store, result_setup, last, nsets>>
    /\ UNCHANGED <<combineVars, supportVars, callVars>>

\* SeismicRSLoadCase.run needs a linked modal load case whose analysis holds
\* periods; the other preconditions (spectrum) are an input of the run.
\* The run of any other load case is the solver's, which may succeed.
CanReturn(id) ==
    IF cases[id].cls = "seismic_rs"
    THEN /\ cases[id].linked # NoLink
         /\ cases[id].direction # NoDirection
         /\ cases[id].g_constant # Unset
         /\ analyses[cases[cases[id].linked].analysis].ran
    ELSE TRUE

\* load_case.run() returns; the loop goes on to the next load case or ends
CaseReturns ==
    /\ run.pc = "running"
    /\ CanReturn(CurrentCase)
    /\ analyses' = IF cases[CurrentCase].cls = "seismic_rs" THEN analyses
                   ELSE [analyses EXCEPT ![cases[CurrentCase].analysis].ran = TRUE]
    /\ run' = [run EXCEPT !.pc = IF run.i = Len(run.queue) THEN "done" ELSE "loop",
                          !.i = @ + 1,
                          !.returned = Append(@, CurrentCase)]
    /\ UNCHANGED <<cases, order, store, result_setup, fs, last, nsets>>
    /\ UNCHANGED <<combineVars, supportVars, callVars>>

\* a loop that catches the failure and goes on with the next load case
CaseRaises_swallowed ==
    /\ run.pc = "running"
    /\ run' = [run EXCEPT !.pc = IF run.i = Len(run.queue) THEN "done" ELSE "loop",
                          !.i = @ + 1,
                          !.raised = TRUE]
    /\ UNCHANGED <<cases, order, store, analyses, result_setup, fs, last, nsets>>
    /\ UNCHANGED <<combineVars, supportVars, callVars>>

\* load_case.run() raises: nothing catches it, run() is left at once
CaseRaises ==
    /\ run.pc = "running"
    /\ run' = [run EXCEPT !.pc = "failed", !.raised = TRUE]
    /\ UNCHANGED <<cases, order, store, analyses, result_setup, fs, last, nsets>>
    /\ UNCHANGED <<combineVars, supportVars, callVars>>

Directions == {0, 3}

EntryValues == {"s1"}

DoReference == \E c \in CollectionSet, n \in Names : Reference(c, n)

DoConfigure ==
    \E rs \in CaseIds, m \in CaseIds, d \in Directions : Configure(rs, m, d)

DoSetEntry ==
    \E id \in CaseIds, f \in MapFields, n \in Nodes, v \in EntryValues :
        SetEntry(id, f, n, v)

NextRegistry ==
    \/ DoReference
    \/ DoConfigure
    \/ RunStart
    \/ StartCase
    \/ CaseReturns
    \/ CaseRaises

\* every step of a started run is taken in the end
FairRun == WF_vars(StartCase) /\ WF_vars(CaseReturns \/ CaseRaises)

SpecRegistry == InitRegistry /\ [][NextRegistry]_vars /\ FairRun

NextOwnership ==
    \/ DoReference
    \/ DoConfigure
    \/ DoSetEntry

SpecOwnership == InitRegistry /\ [][NextOwnership]_vars

(***************************************************************************)
(* Claims about the LoadCaseRegistry.                                      *)
(***************************************************************************)

\* how often load case id was started by the run
TimesStarted(id) == Cardinality({k \in DOMAIN run.started : run.started[k] = id})

\* the subdirectory named after the type and the name of load case id
OwnDir(id) == Append(run.base, <<cases[id].case_type, id[2]>>)

\* the result directory in the settings of the analysis load case id holds
ResultDirectory(id) == analyses[cases[id].analysis].result_directory

\* C11: when LoadCaseRegistry.run() has completed, run() was invoked exactly
\* once on every load case held in any of the six collections, whatever
\* the names of the load cases are.
C11_RunsEveryCaseOnce ==
    run.pc = "done" => \A id \in CaseIds : Exists(id) => TimesStarted(id) = 1

\* C12: while the run() of a load case is executing, its subdirectory
\* <base_dir>/<case_type>_<case_name> exists and is the result directory of
\* its analysis settings, and every load case started before it has
\* returned: load cases run strictly one after another.
C12_DirectoryReadyBeforeRun ==
    /\ run.pc = "running" =>
          /\ OwnDir(CurrentCase) \in fs
          /\ ResultDirectory(CurrentCase) = OwnDir(CurrentCase)
    /\ Len(run.started) =
          Len(run.returned) + (IF run.pc \in {"running", "failed"} THEN 1 ELSE 0)
    /\ \A k \in DOMAIN run.returned : run.returned[k] = run.started[k]

\* a second load case is running after the first one returned
C12_Witness ==
    /\ run.pc = "running"
    /\ Len(run.returned) = 1
    /\ ResultDirectory(CurrentCase) = OwnDir(CurrentCase)

\* the load cases of the run that come after the current one
Later == {run.queue[k][2] : k \in {j \in DOMAIN run.queue : j > run.i}}

\* C13: if the run() of a load case raises, the step that raises leaves the
\* directories and the result directory settings as they are, nothing of
\* the run happens afterwards, and no later load case was started or
\* given a subdirectory.
C13_FailFast ==
    /\ [](run.raised =>
            \A id \in Later : TimesStarted(id) = 0 /\ OwnDir(id) \notin fs)
    /\ [][/\ (run'.raised /\ ~run.raised) =>
                 /\ fs' = fs
                 /\ analyses' = analyses
                 /\ result_setup' = result_setup
                 /\ run'.started = run.started
          /\ run.raised => UNCHANGED <<fs, analyses, result_setup, run>>]_vars

\* the first of two load cases raised
C13_Witness ==
    /\ run.raised
    /\ Later # {}
    /\ run.started = <<CurrentCase>>

\* C14: in each of the six collections, referencing a name that is not
\* present creates and stores exactly one load case of the type of the
\* collection with the model of the registry, and referencing a name that
\* is present returns the stored load case and creates nothing.
C14_ReferenceCreatesOne ==
    [][\A c \in CollectionSet, n \in Names :
          Reference(c, n) =>
             /\ last'.ret = [kind |-> "case", id |-> <<c, n>>]
             /\ cases'[<<c, n>>].cls = c
             /\ cases'[<<c, n>>].model = TheModel
             /\ IF Exists(<<c, n>>)
                THEN cases' = cases
                ELSE \A id \in CaseIds \ {<<c, n>>} : cases'[id] = cases[id]]_vars

\* C15: when LoadCaseRegistry.run() has completed without error, the
\* result directory of every load case of the registry is
\* <base_dir>/<case_type>_<case_name> of its own type and name, and
\* result_setup.directory is the base directory, which exists.
C15_DirectoriesAfterRun ==
    run.pc = "done" =>
        /\ result_setup = run.base
        /\ run.base \in fs
        /\ \A id \in CaseIds : Exists(id) => ResultDirectory(id) = OwnDir(id)

\* the load cases i and j hold the same dict objects: one is a response
\* spectrum load case configured with the other, or both are response
\* spectrum load cases configured with the same modal load case
Linked(i, j) ==
    \/ cases[i].linked = j
    \/ cases[j].linked = i
    \/ cases[i].linked # NoLink /\ cases[i].linked = cases[j].linked

MaxCalls == 3

EPSILON == 10

\* model.nodes.values(), in the order of the dict
NodeSeq == <<"n1", "n2", "n3", "n4">>

ModelNodes == Range(NodeSeq)

\* node.coordinates[-1]
Elevation == [n \in ModelNodes |->
                 CASE n = "n1" -> 0
                   [] n = "n2" -> 1
                   [] n = "n3" -> 10
                   [] OTHER -> 100]

LevelTags == {"L0", "L1", "L2"}

\* model.grid_system.get_level(level_tag).elevation(); no node is near L2
LevelElevation == [t \in LevelTags |->
                      CASE t = "L0" -> 0
                        [] t = "L1" -> 100
                        [] OTHER -> 1000]

Abs(x) == IF x < 0 THEN -x ELSE x

\* the support objects a caller passes
Supports ==
    {[type |-> "FixedSupport", id |-> "f1"],
     [type |-> "ElasticSupport", id |-> "e1"],
     [type |-> "str", id |-> "x1"]}

Dimensionalities == {"3D Frame", "3D Truss", "2D Frame", "2D Truss", "1D"}

NoSupports == [n \in ModelNodes |-> Absent]

NoDiaphragm == <<"absent">>

NoDiaphragms == [n \in ModelNodes |-> NoDiaphragm]

Returned == [kind |-> "none"]

\* a comparison that takes the boundary in
AtLevel_inclusive(n, elevation) == Abs(Elevation[n] - elevation) <= EPSILON

\* np.abs(node.coordinates[-1] - level_elevation) < EPSILON
AtLevel(n, elevation) == Abs(Elevation[n] - elevation) < EPSILON

\* the loop of add_supports_at_level from node k on
RECURSIVE AddLoop(_, _, _, _, _)
AddLoop(k, fx, el, support, level_elevation) ==
    IF k > Len(NodeSeq)
    THEN [fixed |-> fx, elastic |-> el, ret |-> Returned]
    ELSE LET node == NodeSeq[k]
         IN  IF AtLevel(node, level_elevation)
             THEN IF support.type = "FixedSupport"
                  THEN AddLoop(k + 1, [fx EXCEPT ![node] = support.id], el,
                               support, level_elevation)
                  ELSE IF support.type = "ElasticSupport"
                  THEN AddLoop(k + 1, fx, [el EXCEPT ![node] = support.id],
                               support, level_elevation)
                  ELSE [fixed |-> fx, elastic |-> el,
                        ret |-> Error("TypeError", "Unsupported object type")]
             ELSE AddLoop(k + 1, fx, el, support, level_elevation)

InitSupports ==
    /\ lc = NoCase
    /\ fixed_supports = NoSupports
    /\ elastic_supports = NoSupports
    /\ rigid_diaphragm = NoDiaphragms
    /\ outcome = Returned
    /\ ncalls = 0
    /\ CombineUnused
    /\ RegistryUnused
    /\ CallsUnused

\* cls(model=model), called directly
Construct(cls, model) ==
    /\ lc = NoCase
    /\ ncalls < MaxCalls
    /\ LET r == NewCase(cls, model, <<cls, "a">>)
       IN  /\ outcome' = IF IsError(r) THEN r ELSE Returned
           /\ lc' = IF IsError(r) THEN lc ELSE r
    /\ ncalls' = ncalls + 1
    /\ UNCHANGED <<fixed_supports, elastic_supports, rigid_diaphragm>>
    /\ UNCHANGED <<combineVars, registryVars, callVars>>

add_supports_at_level(support, level_tag) ==
    /\ lc # NoCase
    /\ ncalls < MaxCalls
    /\ LET r == AddLoop(1, fixed_supports, elastic_supports, support,
                        LevelElevation[level_tag])
       IN  /\ fixed_supports' = r.fixed
           /\ elastic_supports' = r.elastic
           /\ outcome' = r.ret
    /\ ncalls' = ncalls + 1
    /\ UNCHANGED <<lc, rigid_diaphragm>>
    /\ UNCHANGED <<combineVars, registryVars, callVars>>

\* the FixedSupport of the primary node of a diaphragm
DiaphragmSupport(dimensionality) ==
    CASE dimensionality = "3D Frame" -> "FixedSupport(F,F,T,T,T,F)"
      [] dimensionality = "3D Truss" -> "FixedSupport(F,F,T)"
      [] dimensionality = "2D Frame" -> "FixedSupport(F,T,T)"
      [] dimensionality = "2D Truss" -> "FixedSupport(F,T)"
      [] OTHER -> Absent

\* the rigid diaphragm is recorded before the dimensionality is looked at
define_rigid_diaphragm(primary_node, dimensionality) ==
    /\ lc # NoCase
    /\ ncalls < MaxCalls
    /\ rigid_diaphragm' = [rigid_diaphragm EXCEPT ![primary_node] =
           SelectSeq(NodeSeq, LAMBDA n : /\ AtLevel(n, Elevation[primary_node])
                                         /\ n # primary_node)]
    /\ IF DiaphragmSupport(dimensionality) # Absent
       THEN /\ fixed_supports' = [fixed_supports EXCEPT
                   ![primary_node] = DiaphragmSupport(dimensionality)]
            /\ outcome' = Returned
       ELSE /\ outcome' = Error("ValueError", "Unsupported model dimensionality")
            /\ UNCHANGED fixed_supports
    /\ ncalls' = ncalls + 1
    /\ UNCHANGED <<lc, elastic_supports>>
    /\ UNCHANGED <<combineVars, registryVars, callVars>>

Models == {TheModel, Unset}

DoConstruct == \E cls \in CollectionSet, model \in Models : Construct(cls, model)

DoAddSupports ==
    \E support \in Supports, level_tag \in LevelTags :
        add_supports_at_level(support, level_tag)

DoDefineDiaphragm ==
    \E primary_node \in ModelNodes, dimensionality \in Dimensionalities :
        define_rigid_diaphragm(primary_node, dimensionality)

NextSupports ==
    \/ DoConstruct
    \/ DoAddSupports
    \/ DoDefineDiaphragm

SpecSupports == InitSupports /\ [][NextSupports]_vars

(***************************************************************************)
(* Claims about the supports and the construction of a load case.          *)
(***************************************************************************)

\* C17: after any sequence of add_supports_at_level and
\* define_rigid_diaphragm calls on one load case, no node is a key of both
\* fixed_supports and elastic_supports.
C17_FixedAndElasticDisjoint ==
    \A n \in ModelNodes :
        ~(fixed_supports[n] # Absent /\ elastic_supports[n] # Absent)

\* C18: add_supports_at_level with a FixedSupport sets fixed_supports[n] to
\* the support for exactly the nodes n whose elevation differs from the
\* elevation of the level by less than 1e-6 (10 units of 1e-7), leaves the
\* entries of the other nodes as they are, and leaves elastic_supports
\* unchanged.
C18_FixedSupportsWithinTolerance ==
    [][\A support \in Supports, level_tag \in LevelTags :
          (add_supports_at_level(support, level_tag)
             /\ support.type = "FixedSupport") =>
             /\ \A n \in ModelNodes :
                   LET d == Elevation[n] - LevelElevation[level_tag]
                   IN  fixed_supports'[n] =
                          IF -10 < d /\ d < 10 THEN support.id
                          ELSE fixed_supports[n]
             /\ elastic_supports' = elastic_supports
             /\ outcome' = Returned]_vars

\* the fixed support was added at level L0: the nodes at the level and 1e-7
\* above it have it, the nodes 1e-6 and 1e-5 above it do not
C18_Witness ==
    /\ ncalls = 2
    /\ fixed_supports["n1"] = "f1"
    /\ fixed_supports["n2"] = "f1"
    /\ fixed_supports["n3"] = Absent
    /\ fixed_supports["n4"] = Absent
    /\ elastic_supports = NoSupports

\* C19: add_supports_at_level with a support that is neither a FixedSupport
\* nor an ElasticSupport fails with a TypeError for every level tag, whether
\* or not a node lies at the level, and adds no entry to fixed_supports or
\* elastic_supports.
C19_UnsupportedTypeRaises ==
    [][\A support \in Supports, level_tag \in LevelTags :
          (add_supports_at_level(support, level_tag)
             /\ support.type \notin {"FixedSupport", "ElasticSupport"}) =>
             /\ IsError(outcome')
             /\ outcome'.type = "TypeError"
             /\ fixed_supports' = fixed_supports
             /\ elastic_supports' = elastic_supports]_vars

\* C20: constructing a load case of any of the six variants with model None
\* fails with the ValueError 'Model is a required attribute.', and no load
\* case with model None is produced.
C20_ModelRequired ==
    [][\A cls \in CollectionSet :
          Construct(cls, Unset) =>
             /\ outcome' = Error("ValueError", "Model is a required attribute.")
             /\ lc' = NoCase]_vars

\* C28: during one LoadCaseRegistry.run(), whenever the run() of a response
\* spectrum load case executes, the run() of the modal load case it is
\* linked to has completed earlier in that run, whatever the names are.
C28_ModalRunsBeforeSpectrum ==
    (/\ run.pc = "running"
     /\ cases[CurrentCase].cls = "seismic_rs"
     /\ cases[CurrentCase].linked # NoLink) =>
        \E k \in DOMAIN run.returned : run.returned[k] = cases[CurrentCase].linked

\* C29: define_rigid_diaphragm with a dimensionality that is none of
\* '3D Frame', '3D Truss', '2D Frame', '2D Truss' fails with an error and
\* leaves rigid_diaphragm and fixed_supports as they were.
C29_UnsupportedDimensionalityNoEffect ==
    [][\A primary_node \in ModelNodes, dimensionality \in Dimensionalities :
          (define_rigid_diaphragm(primary_node, dimensionality)
             /\ dimensionality \notin {"3D Frame", "3D Truss", "2D Frame", "2D Truss"}) =>
             /\ IsError(outcome')
             /\ rigid_diaphragm' = rigid_diaphragm
             /\ fixed_supports' = fixed_supports]_vars

(***************************************************************************)
(* Part 4: the load and result computations.                               *)
(***************************************************************************)

\* At most MaxOps calls are made in a behaviour of Part 4.
MaxOps == 3

(***************************************************************************)
(* SeismicRSLoadCase.calculate_modal_participation_factors.  objects is    *)
(* the load case: its _linked_modal_load_case, _design_spectrum,           *)
(* _direction, _g_constant and _results, and the number of periods the     *)
(* analysis of the modal load case holds.                                  *)
(***************************************************************************)

NoResults == [kind |-> "none"]

RSNotLinked == Error("ValueError",
    "Seismic RS analysis requires linking to an existing modal load case.")

RSNoSpectrum == Error("ValueError", "Seismic RS analysis requires a spectrum.")

RSNoDirection == Error("ValueError",
    "Seismic RS analysis requires an excitation direction to be set.")

RSNoG == Error("ValueError", "Seismic RS analysis requires G to be set (g_constant).")

RSNoModes == Error("ValueError", "Modal analysis has not been executed yet.")

\* what the computation after the tests may raise (a missing recorder)
RSComputeError == Error("KeyError", "default_node")

ModeCounts == {0, 2}

\* the fields as the constructor or assignments may have set them
InitRS ==
    /\ objects \in [linked : {NoLink, <<"modal", "a">>},
                    design_spectrum : {Unset, "spectrum"},
                    direction : {NoDirection, 0},
                    g_constant : {Unset, "g"},
                    num_modes : ModeCounts,
                    results : {NoResults}]
    /\ ret = Returned
    /\ nops = 0
    /\ CombineUnused
    /\ RegistryUnused
    /\ SupportsUnused

\* SeismicRSLoadCase.configure on this load case
RSConfigure(direction, g_constant, linked_modal_load_case) ==
    /\ nops < MaxOps
    /\ IF direction \notin ValidDirections
       THEN /\ ret' = Error("AssertionError", "Invalid direction")
            /\ UNCHANGED objects
       ELSE /\ objects' = [objects EXCEPT !.direction = direction,
                                          !.g_constant = g_constant,
                                          !.linked = linked_modal_load_case]
            /\ ret' = Returned
    /\ nops' = nops + 1
    /\ UNCHANGED <<combineVars, registryVars, supportVars>>

\* the tests of calculate_modal_participation_factors, with results cleared
calculate_modal_participation_factors_clears(case, computes) ==
    IF case.linked = NoLink
    THEN [results |-> NoResults, ret |-> RSNotLinked]
    ELSE IF case.design_spectrum = Unset
    THEN [results |-> NoResults, ret |-> RSNoSpectrum]
    ELSE IF case.direction = NoDirection
    THEN [results |-> NoResults, ret |-> RSNoDirection]
    ELSE IF case.g_constant = Unset
    THEN [results |-> NoResults, ret |-> RSNoG]
    ELSE IF case.num_modes = 0
    THEN [results |-> NoResults, ret |-> RSNoModes]
    ELSE IF computes
    THEN [results |-> [kind |-> "results", modes |-> case.num_modes,
                       direction |-> case.direction],
          ret |-> Returned]
    ELSE [results |-> NoResults, ret |-> RSComputeError]

\* calculate_modal_participation_factors: the five tests in the order of the
\* code, then the computation, which assigns _results at its end
calculate_modal_participation_factors(case, computes) ==
    IF case.linked = NoLink
    THEN [results |-> case.results, ret |-> RSNotLinked]
    ELSE IF case.design_spectrum = Unset
    THEN [results |-> case.results, ret |-> RSNoSpectrum]
    ELSE IF case.direction = NoDirection
    THEN [results |-> case.results, ret |-> RSNoDirection]
    ELSE IF case.g_constant = Unset
    THEN [results |-> case.results, ret |-> RSNoG]
    ELSE IF case.num_modes = 0
    THEN [results |-> case.results, ret |-> RSNoModes]
    ELSE IF computes
    THEN [results |-> [kind |-> "results", modes |-> case.num_modes,
                       direction |-> case.direction],
          ret |-> Returned]
    ELSE [results |-> case.results, ret |-> RSComputeError]

\* SeismicRSLoadCase.run
RSRun(computes) ==
    /\ nops < MaxOps
    /\ LET r == calculate_modal_participation_factors(objects, computes)
       IN  /\ objects' = [objects EXCEPT !.results = r.results]
           /\ ret' = r.ret
    /\ nops' = nops + 1
    /\ UNCHANGED <<combineVars, registryVars, supportVars>>

\* SpectrumLoadCase.define_design_spectrum_from_csv with a readable file
define_design_spectrum_from_csv ==
    /\ nops < MaxOps
    /\ objects' = [objects EXCEPT !.design_spectrum = "spectrum"]
    /\ ret' = Returned
    /\ nops' = nops + 1
    /\ UNCHANGED <<combineVars, registryVars, supportVars>>

DoRSConfigure ==
    \E d \in Directions, g \in {Unset, "g"}, m \in {<<"modal", "a">>} :
        RSConfigure(d, g, m)

DoRSRun == \E computes \in BOOLEAN : RSRun(computes)

NextRS ==
    \/ DoRSConfigure
    \/ define_design_spectrum_from_csv
    \/ DoRSRun

SpecRS == InitRS /\ [][NextRS]_vars

\* C27: calculate_modal_participation_factors (and run()) fails with the
\* configuration error of a missing prerequisite when the linked modal load
\* case, the design spectrum, the direction or the g constant is unset or
\* the modal analysis has no modes, and then leaves _results unchanged.
C27_MissingPrerequisiteRaises ==
    [][\A computes \in BOOLEAN :
          RSRun(computes) =>
             LET missing ==
                    (IF objects.linked = NoLink THEN {RSNotLinked} ELSE {})
                    \cup (IF objects.design_spectrum = Unset THEN {RSNoSpectrum} ELSE {})
                    \cup (IF objects.direction = NoDirection THEN {RSNoDirection} ELSE {})
                    \cup (IF objects.g_constant = Unset THEN {RSNoG} ELSE {})
                    \cup (IF objects.linked # NoLink /\ objects.num_modes = 0
                          THEN {RSNoModes} ELSE {})
             IN  missing # {} =>
                    /\ ret' \in missing
                    /\ objects'.results = objects.results]_vars

\* a run failed for a missing g constant and kept the results of an
\* earlier run
C27_Witness ==
    /\ ret = RSNoG
    /\ objects.results # NoResults

(***************************************************************************)
(* LoadCaseRegistry.self_weight and self_mass.  A dict is the sequence of  *)
(* its items <<key, value>> in insertion order.  A quotient is the pair    *)
(* <<numerator, denominator>>.  objects holds component_udl and            *)
(* nodal_loads of the load registry of each static load case and the       *)
(* mass_registry of the target load case.                                  *)
(***************************************************************************)

DictHas(d, k) == \E i \in DOMAIN d : d[i][1] = k

DictGet(d, k) == d[CHOOSE i \in DOMAIN d : d[i][1] = k][2]

\* d[k] = v
DictSet(d, k, v) ==
    IF DictHas(d, k)
    THEN [i \in DOMAIN d |-> IF d[i][1] = k THEN <<k, v>> ELSE d[i]]
    ELSE Append(d, <<k, v>>)

QAdd(a, b) == <<a[1] * b[2] + b[1] * a[2], a[2] * b[2]>>

QEq(a, b) == a[1] * b[2] = b[1] * a[2]

QZero == <<0, 1>>

\* model.components.values(), in the order of the dict
ComponentSeq == <<"c1", "c2", "c3">>

\* the component assemblies of the model
Components ==
    [c \in Range(ComponentSeq) |->
        CASE c = "c1" -> [kind |-> "BeamColumnAssembly", sec_w |-> 2,
                          clear_length |-> 3,
                          external_nodes |-> <<"n1", "n2">>,
                          internal_nodes |-> <<"i1", "i2">>]
          [] c = "c2" -> [kind |-> "BeamColumnAssembly", sec_w |-> 1,
                          clear_length |-> 2,
                          external_nodes |-> <<"n2", "n3">>,
                          internal_nodes |-> <<"i3">>]
          [] OTHER -> [kind |-> "ComponentAssembly", sec_w |-> 0,
                       clear_length |-> 0,
                       external_nodes |-> <<"n3">>,
                       internal_nodes |-> <<>>]]

IsBeamColumn(c) == Components[c].kind = "BeamColumnAssembly"

StaticNames == {"dead", "live"}

UDLs == {<<0, 0, -5>>}

PointLoads == {<<0, 0, -6>>}

LoadedNodes == {"n1"}

Factors == {1, 2}

GConstants == {1, 2}

\* PointMass((mass, mass, mass, 0.00, 0.00, 0.00))
PointMass(mass) == <<mass, mass, mass, QZero, QZero, QZero>>

InitLoads ==
    /\ objects = [component_udl |-> [n \in StaticNames |-> <<>>],
                  nodal_loads |-> [n \in StaticNames |-> <<>>],
                  mass_registry |-> <<>>]
    /\ ret = Returned
    /\ nops = 0
    /\ CombineUnused
    /\ RegistryUnused
    /\ SupportsUnused

\* registry.static[name].load_registry.component_udl[uid] = udl
SetUDL(name, uid, udl) ==
    /\ nops < MaxOps
    /\ objects' = [objects EXCEPT !.component_udl[name] = DictSet(@, uid, udl)]
    /\ ret' = Returned
    /\ nops' = nops + 1
    /\ UNCHANGED <<combineVars, registryVars, supportVars>>

\* registry.static[name].load_registry.nodal_loads[uid] = load
SetNodalLoad(name, uid, load) ==
    /\ nops < MaxOps
    /\ objects' = [objects EXCEPT !.nodal_loads[name] = DictSet(@, uid, load)]
    /\ ret' = Returned
    /\ nops' = nops + 1
    /\ UNCHANGED <<combineVars, registryVars, supportVars>>

\* a self weight that keeps the entry a component has
SelfWeightLoop_keeps(k, udls, scaling_factor) ==
    LET RECURSIVE Loop(_, _)
        Loop(j, d) ==
            IF j > Len(ComponentSeq) THEN d
            ELSE IF IsBeamColumn(ComponentSeq[j]) /\ ~DictHas(d, ComponentSeq[j])
            THEN Loop(j + 1, DictSet(d, ComponentSeq[j],
                     <<0, 0, -(Components[ComponentSeq[j]].sec_w * scaling_factor)>>))
            ELSE Loop(j + 1, d)
    IN  Loop(k, udls)

\* the loop of self_weight over the beam-column assemblies, from k on
SelfWeightLoop(k, udls, scaling_factor) ==
    LET RECURSIVE Loop(_, _)
        Loop(j, d) ==
            IF j > Len(ComponentSeq) THEN d
            ELSE IF IsBeamColumn(ComponentSeq[j])
            THEN Loop(j + 1, DictSet(d, ComponentSeq[j],
                     <<0, 0, -(Components[ComponentSeq[j]].sec_w * scaling_factor)>>))
            ELSE Loop(j + 1, d)
    IN  Loop(k, udls)

self_weight(case_name, scaling_factor) ==
    /\ nops < MaxOps
    /\ objects' = [objects EXCEPT !.component_udl[case_name] =
                       SelfWeightLoop(1, @, scaling_factor)]
    /\ ret' = Returned
    /\ nops' = nops + 1
    /\ UNCHANGED <<combineVars, registryVars, supportVars>>

\* the mass_registry after the point mass was assigned to or added at node
AddMass(registry, node_uid, point_mass) ==
    IF ~DictHas(registry, node_uid)
    THEN DictSet(registry, node_uid, point_mass)
    ELSE DictSet(registry, node_uid,
                 [i \in 1..6 |-> QAdd(DictGet(registry, node_uid)[i], point_mass[i])])

\* for node_uid in nodes: the point mass goes to every node of the sequence
RECURSIVE AddMassAt(_, _, _)
AddMassAt(registry, nodes, point_mass) ==
    IF nodes = <<>> THEN registry
    ELSE AddMassAt(AddMass(registry, Head(nodes), point_mass), Tail(nodes), point_mass)

\* for node_uid in component.internal_nodes
MassNodes(component) == component.internal_nodes

\* the loop over the component UDLs of a source load case: weight, number of
\* external nodes, mass per node, and the nodes that receive it
RECURSIVE UDLsToMass(_, _, _, _)
UDLsToMass(registry, items, factor, g_constant) ==
    IF items = <<>> THEN [registry |-> registry, ret |-> Returned]
    ELSE LET uid == Head(items)[1]
             udl == Head(items)[2]
         IN  IF ~IsBeamColumn(uid)
             THEN [registry |-> registry, ret |-> Error("KeyError", uid)]
             ELSE LET component == Components[uid]
                      length == component.clear_length
                      weight == Abs(udl[Len(udl)] * length)
                      num_nodes == Len(component.external_nodes)
                  IN  IF num_nodes = 0
                      THEN [registry |-> registry,
                            ret |-> Error("AssertionError",
                                          "Invalid component: no external nodes.")]
                      ELSE UDLsToMass(
                               AddMassAt(registry, MassNodes(component),
                                         PointMass(<<weight * factor,
                                                     g_constant * num_nodes>>)),
                               Tail(items), factor, g_constant)

\* the loop over the nodal loads of a source load case
RECURSIVE PointLoadsToMass(_, _, _, _)
PointLoadsToMass(registry, items, factor, g_constant) ==
    IF items = <<>> THEN registry
    ELSE LET uid == Head(items)[1]
             point_load == Head(items)[2]
             mass == <<Abs(point_load[Len(point_load)] * factor), Abs(g_constant)>>
         IN  PointLoadsToMass(AddMass(registry, uid, PointMass(mass)),
                              Tail(items), factor, g_constant)

\* the loop of self_mass over source_load_cases
RECURSIVE SelfMassLoop(_, _, _, _)
SelfMassLoop(registry, source_load_cases, g_constant, obj) ==
    IF source_load_cases = <<>> THEN [registry |-> registry, ret |-> Returned]
    ELSE LET source == Head(source_load_cases)[1]
             factor == Head(source_load_cases)[2]
             r == UDLsToMass(registry, obj.component_udl[source], factor, g_constant)
         IN  IF IsError(r.ret) THEN r
             ELSE SelfMassLoop(
                      PointLoadsToMass(r.registry, obj.nodal_loads[source],
                                       factor, g_constant),
                      Tail(source_load_cases), g_constant, obj)

\* self_mass with the load case that owns mass_registry as its target
self_mass(source_load_cases, g_constant) ==
    /\ nops < MaxOps
    /\ LET r == SelfMassLoop(objects.mass_registry, source_load_cases,
                             g_constant, objects)
       IN  /\ objects' = [objects EXCEPT !.mass_registry = r.registry]
           /\ ret' = r.ret
    /\ nops' = nops + 1
    /\ UNCHANGED <<combineVars, registryVars, supportVars>>

SourceLists ==
    {<<<<n, f>>>> : n \in StaticNames, f \in Factors}
        \cup {<<<<"dead", 1>>, <<"live", 2>>>>}

DoSetUDL ==
    \E n \in StaticNames, c \in Range(ComponentSeq), u \in UDLs : SetUDL(n, c, u)

DoSetNodalLoad ==
    \E n \in StaticNames, u \in LoadedNodes, l \in PointLoads : SetNodalLoad(n, u, l)

DoSelfWeight == \E n \in StaticNames, f \in Factors : self_weight(n, f)

DoSelfMass == \E l \in SourceLists, g \in GConstants : self_mass(l, g)

NextLoads ==
    \/ DoSetUDL
    \/ DoSetNodalLoad
    \/ DoSelfWeight
    \/ DoSelfMass

SpecLoads == InitLoads /\ [][NextLoads]_vars

\* the sum over the nodes of the mass registry of the mass in direction 1
RECURSIVE TotalMass(_)
TotalMass(registry) ==
    IF registry = <<>> THEN QZero
    ELSE QAdd(Head(registry)[2][1], TotalMass(Tail(registry)))

\* C21: for an empty target and a single source load case that carries only
\* a UDL with vertical component u on one beam-column component of clear
\* length L, whatever its numbers of internal and external nodes, after
\* self_mass(target, [(source, f)], g) the masses in one direction of all
\* nodes of the target sum to |u| * L * f / g.
C21_SelfMassRoundTrip ==
    [][\A l \in SourceLists, g \in GConstants :
          (/\ self_mass(l, g)
           /\ Len(l) = 1
           /\ objects.mass_registry = <<>>
           /\ objects.nodal_loads[l[1][1]] = <<>>
           /\ Len(objects.component_udl[l[1][1]]) = 1
           /\ IsBeamColumn(objects.component_udl[l[1][1]][1][1])) =>
             LET item == objects.component_udl[l[1][1]][1]
                 u == item[2][3]
                 L == Components[item[1]].clear_length
                 f == l[1][2]
             IN  /\ ret' = Returned
                 /\ QEq(TotalMass(objects'.mass_registry), <<Abs(u) * L * f, g>>)]_vars

\* C22: after self_weight(case_name, s) the static load case case_name has
\* component_udl[c] = (0, 0, -w_c * s) for every beam-column component c,
\* whatever entry c had; the entries of the other components, the nodal
\* loads of the load case and the other load cases are unchanged.
C22_SelfWeightSetsUDL ==
    [][\A n \in StaticNames, s \in Factors :
          self_weight(n, s) =>
             /\ \A c \in Range(ComponentSeq) :
                   LET before == objects.component_udl[n]
                       after == objects'.component_udl[n]
                   IN  IF Components[c].kind = "BeamColumnAssembly"
                       THEN /\ DictHas(after, c)
                            /\ DictGet(after, c) = <<0, 0, -(Components[c].sec_w * s)>>
                       ELSE /\ DictHas(after, c) = DictHas(before, c)
                            /\ DictHas(before, c) =>
                                  DictGet(after, c) = DictGet(before, c)
             /\ objects'.nodal_loads = objects.nodal_loads
             /\ objects'.mass_registry = objects.mass_registry
             /\ \A m \in StaticNames \ {n} :
                   objects'.component_udl[m] = objects.component_udl[m]]_vars

\* self_weight replaced the entry of a beam-column component, added the
\* entry of the other one and kept the entry of a component of another kind
C22_Witness ==
    /\ nops = 3
    /\ objects.component_udl["dead"] =
          << <<"c2", <<0, 0, -1>>>>, <<"c3", <<0, 0, -5>>>>, <<"c1", <<0, 0, -2>>>> >>

(***************************************************************************)
(* SeismicELFLoadCase.extract_seismic_weight and define_loads.  objects    *)
(* holds _seismic_weight and load_registry.nodal_loads of the load case.   *)
(* The scalar chain that precedes the distribution (approximate period,    *)
(* Cu, Sa(T)) enters as the controlling period, in tenths of a second,     *)
(* and the spectral acceleration read at it; the quotients are exact.      *)
(***************************************************************************)

\* self.model.get_all_nodes(): the elevation (last coordinate) of each node
ELFElevation == [n \in {"b", "g", "r1", "r2"} |->
                    CASE n = "b" -> -1
                      [] n = "g" -> 0
                      [] n = "r1" -> 2
                      [] OTHER -> 3]

\* the mass registries of the modal load cases the weights are taken from
MassRegistries ==
    {<< <<"g", 2>> >>,
     << <<"r1", 1>> >>,
     << <<"g", 1>>, <<"r1", 2>> >>,
     << <<"b", 1>>, <<"g", 1>>, <<"r1", 1>>, <<"r2", 2>> >>}

UnitDirections == {<<1, 0, 0>>, <<0, 1, 0>>}

BaseElevations == {0, 2}

\* controlling periods 0.5 s and 2.5 s
ControllingPeriods == {5, 25}

SpectralAccelerations == {1, 2}

ResponseFactors == {1, 2}

\* interp1d((0.5, 2.5), (1.0, 2.0), kind='linear') at the period
ExponentOf(period) == 1 + (period - 5) \div 20

RECURSIVE Pow(_, _)
Pow(x, k) == IF k = 0 THEN 1 ELSE x * Pow(x, k - 1)

RECURSIVE SumValues(_)
SumValues(items) ==
    IF items = <<>> THEN 0 ELSE Head(items)[2] + SumValues(Tail(items))

InitELF ==
    /\ objects = [seismic_weight |-> <<>>, nodal_loads |-> <<>>]
    /\ ret = Returned
    /\ nops = 0
    /\ CombineUnused
    /\ RegistryUnused
    /\ SupportsUnused

\* the loop of extract_seismic_weight over mass_registry.items()
RECURSIVE ExtractLoop(_, _, _)
ExtractLoop(weights, items, g_constant) ==
    IF items = <<>> THEN weights
    ELSE ExtractLoop(DictSet(weights, Head(items)[1], Head(items)[2] * g_constant),
                     Tail(items), g_constant)

extract_seismic_weight(mass_registry, g_constant) ==
    /\ nops < MaxOps
    /\ objects' = [objects EXCEPT !.seismic_weight =
                       ExtractLoop(@, mass_registry, g_constant)]
    /\ ret' = Returned
    /\ nops' = nops + 1
    /\ UNCHANGED <<combineVars, registryVars, supportVars>>

\* a test that also leaves out the nodes at the base
BelowBase_inclusive(node_elevation) == node_elevation <= 0

\* if node_elevation < 0.00: continue
BelowBase(node_elevation) == node_elevation < 0

\* a share that ignores the exponent
Cvx_linear(weight_value, height, exponent_value) == weight_value * height

\* weight_value * (node_elevation * length_to_feet_factor) ** exponent_value
Cvx(weight_value, height, exponent_value) ==
    weight_value * Pow(height, exponent_value)

\* the first loop of define_loads: nodal_cvx_value before the scaling
RECURSIVE CvxLoop(_, _, _, _)
CvxLoop(cvx, items, base_elevation, exponent_value) ==
    IF items = <<>> THEN cvx
    ELSE LET node_uid == Head(items)[1]
             node_elevation == ELFElevation[node_uid] - base_elevation
         IN  CvxLoop(IF BelowBase(node_elevation) THEN cvx
                     ELSE DictSet(cvx, node_uid,
                                  Cvx(Head(items)[2], node_elevation, exponent_value)),
                     Tail(items), base_elevation, exponent_value)

\* the last loop: nodal_loads[node_uid] = PointLoad(v * nodal_force), with
\* nodal_force = cvx * v_b / total_cvx
RECURSIVE LoadLoop(_, _, _, _, _)
LoadLoop(loads, cvx, v_b, total_cvx, direction) ==
    IF cvx = <<>> THEN loads
    ELSE LET nodal_force == <<Head(cvx)[2] * v_b[1], v_b[2] * total_cvx>>
         IN  LoadLoop(DictSet(loads, Head(cvx)[1],
                              [j \in DOMAIN direction |->
                                  <<direction[j] * nodal_force[1], nodal_force[2]>>]),
                      Tail(cvx), v_b, total_cvx, direction)

define_loads(r_factor, importance_factor, controling_period, s_a, direction, base_elevation) ==
    /\ nops < MaxOps
    /\ LET c_s == <<s_a * importance_factor, r_factor>>
           weight == SumValues(objects.seismic_weight)
           v_b == <<c_s[1] * weight, c_s[2]>>
           exponent_value == ExponentOf(controling_period)
           nodal_cvx_value == CvxLoop(<<>>, objects.seismic_weight,
                                      base_elevation, exponent_value)
           total_cvx == SumValues(nodal_cvx_value)
       IN  objects' = [objects EXCEPT !.nodal_loads =
                           LoadLoop(@, nodal_cvx_value, v_b, total_cvx, direction)]
    /\ ret' = Returned
    /\ nops' = nops + 1
    /\ UNCHANGED <<combineVars, registryVars, supportVars>>

DoExtract == \E m \in MassRegistries : extract_seismic_weight(m, 1)

DoDefineLoads ==
    \E r \in ResponseFactors, t \in ControllingPeriods, a \in SpectralAccelerations,
       d \in UnitDirections, b \in BaseElevations :
        define_loads(r, 1, t, a, d, b)

NextELF ==
    \/ DoExtract
    \/ DoDefineLoads

SpecELF == InitELF /\ [][NextELF]_vars

\* the entry of node n in the dict d is the one it was in the dict e
SameEntry(d, e, n) ==
    /\ DictHas(d, n) = DictHas(e, n)
    /\ DictHas(e, n) => DictGet(d, n) = DictGet(e, n)

ELFNodes == DOMAIN ELFElevation

\* C23 as stated: define_loads writes a nodal load only for nodes that have
\* a seismic weight and lie strictly above base_elevation; a node at or
\* below base_elevation gets no entry written.
C23_OnlyAboveBaseLoaded ==
    [][\A r \in ResponseFactors, t \in ControllingPeriods,
          a \in SpectralAccelerations, d \in UnitDirections, b \in BaseElevations :
          define_loads(r, 1, t, a, d, b) =>
             \A n \in ELFNodes :
                ~(DictHas(objects.seismic_weight, n) /\ ELFElevation[n] > b) =>
                   SameEntry(objects'.nodal_loads, objects.nodal_loads, n)]_vars

\* C23 amended: define_loads writes a nodal load for exactly the nodes that
\* have a seismic weight and lie at or above base_elevation; a node
\* strictly below gets no entry written, and a node at base_elevation gets
\* an entry, of zero force when a weighted node lies above the base.
C23_OnlyBelowBaseExcluded ==
    [][\A r \in ResponseFactors, t \in ControllingPeriods,
          a \in SpectralAccelerations, d \in UnitDirections, b \in BaseElevations :
          define_loads(r, 1, t, a, d, b) =>
             \A n \in ELFNodes :
                IF DictHas(objects.seismic_weight, n) /\ ELFElevation[n] >= b
                THEN /\ DictHas(objects'.nodal_loads, n)
                     /\ ELFElevation[n] = b =>
                           \A j \in 1..3 :
                              /\ DictGet(objects'.nodal_loads, n)[j][1] = 0
                              /\ (\E m \in ELFNodes :
                                     /\ DictHas(objects.seismic_weight, m)
                                     /\ DictGet(objects.seismic_weight, m) > 0
                                     /\ ELFElevation[m] > b)
                                    => DictGet(objects'.nodal_loads, n)[j][2] # 0
                ELSE SameEntry(objects'.nodal_loads, objects.nodal_loads, n)]_vars

\* the load case has weights below, at and above the base, and loads at
\* and above it only
C23_Witness ==
    /\ DictHas(objects.seismic_weight, "b")
    /\ ~DictHas(objects.nodal_loads, "b")
    /\ DictHas(objects.nodal_loads, "g")
    /\ DictGet(objects.nodal_loads, "g")[1] = <<0, 22>>
    /\ DictHas(objects.nodal_loads, "r2")

\* the force of a nodal load along the direction, a quotient
Along(load, direction) ==
    <<load[1][1] * direction[1] + load[2][1] * direction[2] + load[3][1] * direction[3],
      load[1][2]>>

RECURSIVE SumAlong(_, _, _)
SumAlong(loads, nodes, direction) ==
    IF nodes = {} THEN QZero
    ELSE LET n == CHOOSE x \in nodes : TRUE
         IN  QAdd(Along(DictGet(loads, n), direction),
                  SumAlong(loads, nodes \ {n}, direction))

\* C24: after define_loads with a unit direction and a weighted node above
\* the base, the forces along the direction of the loaded nodes sum to
\* Vb = Cs * (sum of all seismic weights), and the force of each node is
\* proportional to weight * height^k.
C24_ForcesSumToBaseShear ==
    [][\A r \in ResponseFactors, t \in ControllingPeriods,
          a \in SpectralAccelerations, d \in UnitDirections, b \in BaseElevations :
          (/\ define_loads(r, 1, t, a, d, b)
           /\ \E n \in ELFNodes : /\ DictHas(objects.seismic_weight, n)
                                  /\ DictGet(objects.seismic_weight, n) > 0
                                  /\ ELFElevation[n] > b) =>
             LET w == objects.seismic_weight
                 loaded == {n \in ELFNodes : DictHas(w, n) /\ ELFElevation[n] >= b}
                 h(n) == ELFElevation[n] - b
                 share(n) == IF t = 5 THEN DictGet(w, n) * h(n)
                             ELSE DictGet(w, n) * h(n) * h(n)
                 force(n) == Along(DictGet(objects'.nodal_loads, n), d)
             IN  /\ QEq(SumAlong(objects'.nodal_loads, loaded, d),
                        <<a * SumValues(w), r>>)
                 /\ \A i \in loaded, j \in loaded :
                       force(i)[1] * force(j)[2] * share(j)
                          = force(j)[1] * force(i)[2] * share(i)]_vars

\* two nodes of different heights above the base share the base shear 5 in
\* the ratio 1 * 2^2 : 2 * 3^2
C24_Witness ==
    /\ DictHas(objects.nodal_loads, "r1")
    /\ DictHas(objects.nodal_loads, "r2")
    /\ DictGet(objects.nodal_loads, "r1")[1] = <<20, 22>>
    /\ DictGet(objects.nodal_loads, "r2")[1] = <<90, 22>>

\* ---------------------------------------------------------------------
\* LoadCase.calculate_basic_forces
\* ---------------------------------------------------------------------

TWO_DIMENSIONAL == 2

THREE_DIMENSIONAL == 3

\* the classes that inherit HasLoads
HasLoads(cls) ==
    cls \in {"static", "seismic_elf", "seismic_rs", "seismic_transient", "other"}

\* the elements of the model: the class and, for beam-column elements and
\* bars, the clear length
ForceElements ==
    [e \in {"e1", "e2", "e3", "e4", "z1"} |->
        CASE e = "e1" -> [cls |-> "ElasticBeamColumn", clear_length |-> 120]
          [] e = "e2" -> [cls |-> "DispBeamColumn", clear_length |-> 60]
          [] e = "e3" -> [cls |-> "TrussBar", clear_length |-> 60]
          [] e = "e4" -> [cls |-> "ElasticBeamColumn", clear_length |-> 30]
          [] OTHER -> [cls |-> "ZeroLength", clear_length |-> 0]]

\* isinstance(element, (BeamColumnElement, Bar))
HasClearLength(e) ==
    ForceElements[e].cls \in {"ElasticBeamColumn", "DispBeamColumn", "TrussBar"}

\* the component assemblies of the model: the class and the elements
Assemblies ==
    [c \in {"k1", "k2", "k3"} |->
        CASE c = "k1" -> [cls |-> "BeamColumnAssembly",
                          elements |-> {"e1", "e2", "z1"}]
          [] c = "k2" -> [cls |-> "BarAssembly", elements |-> {"e3"}]
          [] OTHER -> [cls |-> "ComponentAssembly", elements |-> {"e4"}]]

\* the analysis indices (rows) of the recorder's table
Indices == {1, 2}

\* the recorded i-end values of one row and one column of the table, by
\* dof: a recording is one of two value sets, shifted by row and column
BaseValues == << <<-100, 20, 30, 40, 50, 60>>, <<7, -3, 5, 0, 2, 9>> >>

IEnd(base, t, p, dof) == BaseValues[base][dof] + 10 * (t - 1) + (p - 1)

RecorderLists ==
    {<<"e1">>, <<"e1", "e2">>, <<"e3", "e1">>, <<"e2", "e4">>, <<"z1">>,
     <<"e4", "e3">>}

RecorderNames == {"default_element", "default_node", "missing"}

GlobalUDLs == {<<>>, << <<"k1", <<2, 0, -5>> >> >>}

NumStations == {2, 3}

\* the component sets a caller supplies
ComponentSets == {{"k1"}, {"k1", "k2"}, {"k2", "k3"}, {"k1", "k2", "k3"}}

Ndms == {1, TWO_DIMENSIONAL, THREE_DIMENSIONAL}

\* np.linspace(0.00, stop, num=num), for the lengths and counts of the
\* model, whose quotients are whole
linspace(stop, num) == [k \in 1..num |-> (stop * (k - 1)) \div (num - 1)]

\* float(f'{v:.2f}') for v in np.linspace(0.00, 1.00, num), in hundredths
StationLabels(num) ==
    [k \in 1..num |-> (200 * (k - 1) + (num - 1)) \div (2 * (num - 1))]

\* the load case with its load registry, and the element recorder of its
\* analysis with the table it returns: the column levels, the highest
\* dof, the recorded stations (hundredths) and the values
InitForces ==
    /\ objects \in [cls : {"static", "modal"},
                    component_udl : GlobalUDLs,
                    elements : RecorderLists,
                    levels : {{"element", "dof", "station"}, {"element", "dof"}},
                    ndf : {2, 3, 6},
                    stations : {<<0, 100>>, <<100>>},
                    base : {1, 2}]
    /\ ret = Returned
    /\ nops = 0
    /\ CombineUnused
    /\ RegistryUnused
    /\ SupportsUnused

\* component.calculate_element_udl of a horizontal member along the global
\* X axis: every element of the component carries the load in local axes
calculate_element_udl(component, global_udl) ==
    [e \in Assemblies[component].elements |->
        <<global_udl[1], global_udl[3], -global_udl[2]>>]

\* the loop over the supplied components, with the elements of every
\* assembly gathered
CollectElements_any_assembly(components) ==
    UNION {Assemblies[c].elements : c \in components}

\* the loop over the supplied components: the uids in the dict elements
CollectElements(components) ==
    UNION {Assemblies[c].elements :
             c \in {k \in components :
                      Assemblies[k].cls \in {"BeamColumnAssembly", "BarAssembly"}}}

\* the same loop: the dict udls_local
CollectUDLs(case, components) ==
    LET udls_global == IF HasLoads(case.cls) THEN case.component_udl ELSE <<>>
        loaded == {c \in components :
                     /\ Assemblies[c].cls = "BeamColumnAssembly"
                     /\ DictHas(udls_global, c)}
    IN  [e \in UNION {Assemblies[c].elements : c \in loaded} |->
            LET c == CHOOSE k \in loaded : e \in Assemblies[k].elements
            IN  calculate_element_udl(c, DictGet(udls_global, c))[e]]

\* udls_local[element_uid][i] if the element has a load, else 0.00
WData(udls_local, element_uid, i) ==
    IF element_uid \in DOMAIN udls_local THEN udls_local[element_uid][i] ELSE 0

missing_elements(recorder_elements, elements) ==
    SelectSeq(recorder_elements, LAMBDA e : e \notin elements)

MissingElementsError(missing) ==
    [kind |-> "error", type |-> "ValueError", msg |-> "Missing elements",
     missing |-> missing]

\* the axial force without the distributed load
result_axial_constant(data_i_axial, w_data_axial, location) ==
    -data_i_axial

result_axial(data_i_axial, w_data_axial, location) ==
    -(data_i_axial + w_data_axial * location)

\* result_shear_y and result_shear_z
result_shear(data_i_shear, w_data_shear, location) ==
    data_i_shear + w_data_shear * location

result_torsion(data_i_torsion) == -data_i_torsion

result_moment_y(location, w_data_shear_z, data_i_shear_z, data_i_moment_y) ==
    (location * location * w_data_shear_z) \div 2
    + location * data_i_shear_z + data_i_moment_y

result_moment_z(location, w_data_shear_y, data_i_shear_y, data_i_moment_z) ==
    (location * location * w_data_shear_y) \div 2
    + location * data_i_shear_y - data_i_moment_z

\* calculate_basic_forces of a load case whose analysis holds the element
\* recorder default_element and the node recorder default_node: the checks
\* in the order of the code, then the six tables
calculate_basic_forces(case, recorder_name, components, ndm, num_stations) ==
    IF recorder_name = "missing"
    THEN Error("ValueError", "Specified recorder not available")
    ELSE IF recorder_name # "default_element"
    THEN Error("TypeError", "The specified recorder is not an Element recorder.")
    ELSE
    LET elements == CollectElements(components)
        udls_local == CollectUDLs(case, components)
        missing == missing_elements(case.elements, elements)
        m == Len(case.elements)
        locations ==
            [p \in 1..m |->
                linspace(ForceElements[case.elements[p]].clear_length,
                         num_stations)]
        labels == StationLabels(num_stations)
        P(j) == ((j - 1) \div num_stations) + 1
        K(j) == ((j - 1) % num_stations) + 1
        cols == 1..(m * num_stations)
        w(j, i) == WData(udls_local, case.elements[P(j)], i)
        x(j) == locations[P(j)][K(j)]
        data_i(t, j, dof) == IEnd(case.base, t, P(j), dof)
        zeros == [t \in Indices |-> [j \in cols |-> 0]]
    IN  IF ~({"dof", "station"} \subseteq case.levels)
        THEN Error("ValueError", "Data must have levels: dof, station")
        ELSE IF case.ndf \notin {3, 6}
        THEN Error("ValueError", "Must be either 2D or 3D Frame.")
        ELSE IF 0 \notin Range(case.stations)
        THEN Error("KeyError", "0.0")
        ELSE IF missing # <<>>
        THEN MissingElementsError(missing)
        ELSE IF \E p \in 1..m : ~HasClearLength(case.elements[p])
        THEN Error("KeyError", "element_lengths")
        ELSE IF ndm = THREE_DIMENSIONAL /\ case.ndf < 4
        THEN Error("KeyError", "4")
        ELSE IF ndm \notin {TWO_DIMENSIONAL, THREE_DIMENSIONAL}
        THEN Error("UnboundLocalError", "data_i_moment_z")
        ELSE
        [kind |-> "tables",
         index |-> Indices,
         columns |-> [j \in cols |-> <<case.elements[P(j)], labels[K(j)]>>],
         axial |->
            [t \in Indices |-> [j \in cols |->
                result_axial(data_i(t, j, 1), w(j, 1), x(j))]],
         shear_y |->
            [t \in Indices |-> [j \in cols |->
                result_shear(data_i(t, j, 2), w(j, 2), x(j))]],
         shear_z |->
            IF ndm = TWO_DIMENSIONAL THEN zeros
            ELSE [t \in Indices |-> [j \in cols |->
                    result_shear(data_i(t, j, 3), w(j, 3), x(j))]],
         torsion |->
            IF ndm = TWO_DIMENSIONAL THEN zeros
            ELSE [t \in Indices |-> [j \in cols |->
                    result_torsion(data_i(t, j, 4))]],
         moment_y |->
            IF ndm = TWO_DIMENSIONAL THEN zeros
            ELSE [t \in Indices |-> [j \in cols |->
                    result_moment_y(x(j), w(j, 3), data_i(t, j, 3),
                                    data_i(t, j, 5))]],
         moment_z |->
            [t \in Indices |-> [j \in cols |->
                result_moment_z(x(j), w(j, 2), data_i(t, j, 2),
                    data_i(t, j, IF ndm = TWO_DIMENSIONAL THEN 3 ELSE 6))]]]

\* a call of calculate_basic_forces on the load case
CalculateBasicForces(recorder_name, components, ndm, num_stations) ==
    /\ nops < MaxOps
    /\ ret' = calculate_basic_forces(objects, recorder_name, components, ndm,
                                     num_stations)
    /\ nops' = nops + 1
    /\ UNCHANGED objects
    /\ UNCHANGED <<combineVars, registryVars, supportVars>>

DoCalculateBasicForces ==
    \E recorder_name \in RecorderNames, components \in ComponentSets,
       ndm \in Ndms, num_stations \in NumStations :
        CalculateBasicForces(recorder_name, components, ndm, num_stations)

\* the analysis runs again and the recorder holds another recording
Rerun ==
    /\ nops < MaxOps
    /\ \E base \in {1, 2} :
          /\ base # objects.base
          /\ objects' = [objects EXCEPT !.base = base]
    /\ ret' = Returned
    /\ nops' = nops + 1
    /\ UNCHANGED <<combineVars, registryVars, supportVars>>

NextForces ==
    \/ DoCalculateBasicForces
    \/ Rerun

SpecForces == InitForces /\ [][NextForces]_vars

\* the recorder elements that belong to no beam-column or bar assembly of
\* the supplied components, in the recorder's order
NotCovered(case, components) ==
    SelectSeq(case.elements,
              LAMBDA e : ~\E c \in components :
                            /\ Assemblies[c].cls \in {"BeamColumnAssembly",
                                                      "BarAssembly"}
                            /\ e \in Assemblies[c].elements)

\* the recorder's table reaches the test of the missing elements: it has
\* the levels dof and station, a highest dof of 3 or 6 and the station 0.0
DataAccepted(case) ==
    /\ {"dof", "station"} \subseteq case.levels
    /\ case.ndf \in {3, 6}
    /\ 0 \in Range(case.stations)

\* C25: when calculate_basic_forces returns, the axial table holds, for
\* every analysis index, every recorder element and each of the
\* num_stations evenly spaced positions x in [0, clear length], the value
\* -(N_i + w_x * x), with N_i the recorded i-end value of dof 1 and w_x the
\* element's local axial distributed load (0 without one); with w_x = 0
\* the value is -N_i at every station.
C25_AxialForceAtStations ==
    [][\A recorder_name \in RecorderNames,
          components \in ComponentSets,
          ndm \in Ndms, num_stations \in NumStations :
          (/\ ret'.kind = "tables"
           /\ CalculateBasicForces(recorder_name, components, ndm, num_stations))
          => /\ Len(ret'.columns) = Len(objects.elements) * num_stations
             /\ \A t \in Indices, p \in 1..Len(objects.elements),
                   k \in 1..num_stations :
                   LET e == objects.elements[p]
                       L == ForceElements[e].clear_length
                       N_i == IEnd(objects.base, t, p, 1)
                       w_x == WData(CollectUDLs(objects, components), e, 1)
                       col == (p - 1) * num_stations + k
                   IN  /\ ret'.columns[col][1] = e
                       /\ (num_stations - 1) * ret'.axial[t][col]
                            = -((num_stations - 1) * N_i + w_x * L * (k - 1))
                       /\ w_x = 0 => ret'.axial[t][col] = -N_i]_vars

\* N_i = -100, no distributed load, L = 120 and 3 stations give 100 at the
\* stations 0, 0.5 and 1.0
C25_Witness ==
    /\ ret.kind = "tables"
    /\ objects.elements = <<"e1">>
    /\ objects.base = 1
    /\ ret.columns = << <<"e1", 0>>, <<"e1", 50>>, <<"e1", 100>> >>
    /\ ret.axial[1] = <<100, 100, 100>>

\* C26 (as stated): whenever the recorder covers an element of no
\* beam-column or bar assembly of the supplied components, the call fails
\* with the error that lists the missing element ids.
C26_MissingElementsListed ==
    [][\A components \in ComponentSets,
          ndm \in Ndms, num_stations \in NumStations :
          (/\ NotCovered(objects, components) # <<>>
           /\ CalculateBasicForces("default_element", components, ndm,
                                   num_stations))
          => /\ ret'.kind = "error"
             /\ "missing" \in DOMAIN ret'
             /\ ret'.missing = NotCovered(objects, components)]_vars

\* C26 (amended): whenever the recorder covers an element of no
\* beam-column or bar assembly of the supplied components, the call fails
\* and returns no tables; the error lists the missing element ids when the
\* recorder's table has the levels dof and station, a highest dof of 3 or
\* 6 and the station 0.0.
C26_MissingElementsFail ==
    [][\A components \in ComponentSets,
          ndm \in Ndms, num_stations \in NumStations :
          (/\ NotCovered(objects, components) # <<>>
           /\ CalculateBasicForces("default_element", components, ndm,
                                   num_stations))
          => /\ ret'.kind = "error"
             /\ DataAccepted(objects)
                  => /\ "missing" \in DOMAIN ret'
                     /\ ret'.type = "ValueError"
                     /\ ret'.missing = NotCovered(objects, components)]_vars

C26_Witness ==
    /\ ret.kind = "error"
    /\ "missing" \in DOMAIN ret
    /\ objects.elements = <<"e2", "e4">>
    /\ ret.missing = <<"e4">>

\* C30: calculate_basic_forces returns tables only if ndm = 2 and the
\* recorder's highest dof is 3, or ndm = 3 and the highest dof is 6; every
\* other combination of ndm and highest dof fails with an error.
C30_DimensionalityMatchesData ==
    [][\A recorder_name \in RecorderNames,
          components \in ComponentSets,
          ndm \in Ndms, num_stations \in NumStations :
          (/\ ~(ndm = TWO_DIMENSIONAL /\ objects.ndf = 3)
           /\ ~(ndm = THREE_DIMENSIONAL /\ objects.ndf = 6)
           /\ CalculateBasicForces(recorder_name, components, ndm, num_stations))
          => ret'.kind = "error"]_vars

====
